---------------------------- MODULE Spec2Model ----------------------------
(***************************************************************************)
(* Model of the resumable download pipeline of src/main.go: the page loop  *)
(* of main, parseJSONForDownloads, urlToFilename, downloadPDFFile, the     *)
(* download log (appendLineToFile / loadDownloadLogToMap) and the 429      *)
(* backoff.                                                                *)
(*                                                                         *)
(* Strings are sequences whose elements stand for one character each       *)
(* ("U+2192" stands for the arrow character of the log separator).  The    *)
(* literal fragments of the format strings of error messages, which hold   *)
(* no digit, and the words of HTTP headers are kept as single elements.    *)
(***************************************************************************)
EXTENDS Integers, Sequences, FiniteSets, TLC

(***************************************************************************)
(* Bounds of the model.                                                    *)
(***************************************************************************)
\* Highest page index visited by main (75 in the program, scaled down).
maxPageIndex == 1
\* Number of runs of main that are explored (a crash starts the next run).
MaxRuns == 2
\* Number of crashes that are explored over all runs.
MaxCrashes == 1

(***************************************************************************)
(* strings                                                                 *)
(***************************************************************************)
Letters == {"a","b","c","d","e","f","g","h","i","j","k","l","m","n","o","p",
            "q","r","s","t","u","v","w","x","y","z"}
Digits == {"0","1","2","3","4","5","6","7","8","9"}
UpperSeq == <<"A","B","C","D","E","F","G","H","I","J","K","L","M","N","O","P",
              "Q","R","S","T","U","V","W","X","Y","Z">>
LowerSeq == <<"a","b","c","d","e","f","g","h","i","j","k","l","m","n","o","p",
              "q","r","s","t","u","v","w","x","y","z">>

\* strings.ToLower on one character.
LowerChar(c) ==
    IF \E i \in 1..26 : UpperSeq[i] = c
    THEN LowerSeq[CHOOSE i \in 1..26 : UpperSeq[i] = c]
    ELSE c

\* strings.ToLower
ToLower(s) == [i \in 1..Len(s) |-> LowerChar(s[i])]

\* strings.HasPrefix
HasPrefix(s, p) == Len(p) <= Len(s) /\ SubSeq(s, 1, Len(p)) = p

\* The suffix of s that starts at position i.
From(s, i) == SubSeq(s, i, Len(s))

\* strings.Index, 1-based; 0 when sub does not occur in s.
IndexOf(s, sub) ==
    LET hits == {i \in 1..(Len(s) - Len(sub) + 1) : SubSeq(s, i, i + Len(sub) - 1) = sub}
    IN  IF hits = {} THEN 0 ELSE CHOOSE i \in hits : \A j \in hits : i <= j

\* strings.Contains
Contains(s, sub) == IndexOf(s, sub) # 0

\* The first position from i on where sub occurs in s, 0 when there is none.
IndexFrom(s, sub, i) ==
    LET hits == {j \in i..(Len(s) - Len(sub) + 1) : SubSeq(s, j, j + Len(sub) - 1) = sub}
    IN  IF hits = {} THEN 0 ELSE CHOOSE j \in hits : \A k \in hits : j <= k

\* strings.Split with a non-empty separator.
Split(s, sep) ==
    LET parts[i \in 1..(Len(s) + 1)] ==
            LET j == IndexFrom(s, sep, i)
            IN  IF j = 0 THEN <<SubSeq(s, i, Len(s))>>
                ELSE <<SubSeq(s, i, j - 1)>> \o parts[j + Len(sep)]
    IN  parts[1]

\* strings.ReplaceAll with a non-empty old string.
ReplaceAll(s, old, new) ==
    LET done[i \in 1..(Len(s) + 1)] ==
            LET j == IndexFrom(s, old, i)
            IN  IF j = 0 THEN SubSeq(s, i, Len(s))
                ELSE SubSeq(s, i, j - 1) \o new \o done[j + Len(old)]
    IN  done[1]

\* The character classes of the two patterns of urlToFilename:
\* [^a-z0-9] and _ .
InClass(c, class) ==
    IF class = "nonalnum" THEN c \notin Letters /\ c \notin Digits ELSE c = "_"

\* regexp.ReplaceAllString for a pattern "one or more characters of class":
\* every maximal run of characters of the class becomes repl.
ReplaceRuns(s, class, repl) ==
    LET out[i \in 1..(Len(s) + 1)] ==
            IF i > Len(s) THEN <<>>
            ELSE IF ~InClass(s[i], class) THEN <<s[i]>> \o out[i + 1]
            ELSE IF i > 1 /\ InClass(s[i - 1], class) THEN out[i + 1]
            ELSE repl \o out[i + 1]
    IN  out[1]

\* The position of the last "/" of s, 0 when there is none.
LastSlash(s) ==
    LET hits == {i \in 1..Len(s) : s[i] = "/"}
    IN  IF hits = {} THEN 0 ELSE CHOOSE i \in hits : \A j \in hits : j <= i

\* filepath.Ext: the suffix from the last "." of the last "/"-separated element.
getFileExtension(path) ==
    LET start == LastSlash(path) + 1
        dots == {i \in start..Len(path) : path[i] = "."}
    IN  IF dots = {} THEN <<>>
        ELSE From(path, CHOOSE i \in dots : \A j \in dots : j <= i)

\* path.Base: trailing slashes dropped, then the last element; "." for the
\* empty string and "/" for a string of slashes only.
StripTrailingSlashes(s) ==
    LET kept == {i \in 1..Len(s) : s[i] # "/"}
    IN  IF kept = {} THEN <<>>
        ELSE SubSeq(s, 1, CHOOSE i \in kept : \A j \in kept : j <= i)

getFileNameOnly(content) ==
    IF content = <<>> THEN <<".">>
    ELSE LET t == StripTrailingSlashes(content)
         IN  IF t = <<>> THEN <<"/">> ELSE From(t, LastSlash(t) + 1)

\* strings.ReplaceAll(input, toRemove, ""); an empty toRemove changes nothing
\* here because "_" is always its first character.
removeSubstring(input, toRemove) == ReplaceAll(input, toRemove, <<>>)

\* urlToFilename: lower-case, take extension and base name, replace runs of
\* characters outside a-z0-9 by "_", collapse "_", drop a leading "_",
\* remove every "_<ext>" and append the extension.
urlToFilename(rawURL) ==
    LET lowercaseURL == ToLower(rawURL)
        ext == getFileExtension(lowercaseURL)
        baseFilename == getFileNameOnly(lowercaseURL)
        replaced == ReplaceRuns(baseFilename, "nonalnum", <<"_">>)
        collapsed == ReplaceRuns(replaced, "underscore", <<"_">>)
        cut == IF HasPrefix(collapsed, <<"_">>) THEN Tail(collapsed) ELSE collapsed
        invalid_ext == <<"_">> \o (IF HasPrefix(ext, <<".">>) THEN Tail(ext) ELSE ext)
    IN  removeSubstring(cut, invalid_ext) \o ext


(***************************************************************************)
(* The pages served by the API and the items they hold.                    *)
(***************************************************************************)
HTTP == <<"h","t","t","p",":","/","/">>
URL_A == HTTP \o <<"h","/","a">>
URL_B429 == HTTP \o <<"h","/","4","2","9">>
URL_C == <<"H","T","T","P","S",":","/","/">> \o <<"h","/","c">>
URL_FTP == <<"f","t","p",":","/","/","h","/","x">>
URL_NOHOST == <<"h","t","t","p",":","/","x">>

NAME_A == <<"a",".","p","d","f">>
NAME_A_UPPER == <<"d","/","A",".","P","D","F">>
NAME_B == <<"B"," ","4","2","9",".","p","d","f">>
NAME_OTHER == <<"o",".","p","d","f">>

Variant(u, n) == [DownloadURL |-> u, FileName |-> n]

\* The decoded JSON document of page n: results, each a list of variants.
\* Pages past the first two are served as text that is not valid JSON.
PagePayload(n) ==
    IF n = 0
    THEN [valid |-> TRUE,
          Results |-> << <<Variant(URL_A, NAME_A), Variant(URL_A, NAME_OTHER)>>,
                         <<Variant(URL_FTP, NAME_OTHER), Variant(<<>>, NAME_OTHER),
                           Variant(URL_B429, NAME_B)>> >>]
    ELSE IF n = 1
    THEN [valid |-> TRUE,
          Results |-> << <<Variant(URL_NOHOST, NAME_OTHER), Variant(URL_A, NAME_A)>>,
                         <<Variant(URL_C, NAME_A_UPPER)>> >>]
    ELSE [valid |-> FALSE, Results |-> <<>>]

\* What a saved page file holds: a completely written file holds the
\* payload, a file whose body was cut short holds a proper prefix of the
\* JSON text, which is not valid JSON.
FileContent(n, fileState) ==
    IF fileState = "full" THEN PagePayload(n) ELSE [valid |-> FALSE, Results |-> <<>>]

Pages == 0..maxPageIndex

Flatten(ss) ==
    LET upTo[i \in 0..Len(ss)] == IF i = 0 THEN <<>> ELSE upTo[i - 1] \o ss[i]
    IN  upTo[Len(ss)]

AllVariants ==
    UNION {{Flatten(PagePayload(n).Results)[i] : i \in 1..Len(Flatten(PagePayload(n).Results))}
           : n \in Pages}

(***************************************************************************)
(* isValidDownloadURL: url.Parse succeeds, scheme and host are not empty   *)
(* and the lower-cased scheme is http or https.                            *)
(***************************************************************************)
\* url.getScheme: the letters, digits, "+", "-", "." before the first ":";
\* empty when the string has no such prefix.
SchemeEnd(s) ==
    LET stops == {i \in 1..Len(s) :
                    LowerChar(s[i]) \notin Letters
                    /\ ~(i > 1 /\ (s[i] \in Digits \/ s[i] \in {"+", "-", "."}))}
    IN  IF stops = {} THEN 0
        ELSE LET i == CHOOSE k \in stops : \A j \in stops : k <= j
             IN  IF s[i] = ":" /\ i > 1 THEN i ELSE 0

URLScheme(s) == IF SchemeEnd(s) = 0 THEN <<>> ELSE SubSeq(s, 1, SchemeEnd(s) - 1)

\* The authority of the URL: what follows "//" after the scheme, up to the
\* next "/", "?" or "#".
URLHost(s) ==
    LET rest == From(s, SchemeEnd(s) + 1)
    IN  IF ~HasPrefix(rest, <<"/", "/">>) THEN <<>>
        ELSE LET auth == From(rest, 3)
                 ends == {i \in 1..Len(auth) : auth[i] \in {"/", "?", "#"}}
             IN  IF ends = {} THEN auth
                 ELSE SubSeq(auth, 1, (CHOOSE i \in ends : \A j \in ends : i <= j) - 1)

\* A missing scheme in front of a ":" in the first path segment is a parse error.
URLParseError(s) ==
    /\ SchemeEnd(s) = 0
    /\ \E i \in 1..Len(s) : s[i] = ":" /\ \A j \in 1..(i - 1) : s[j] # "/"

\* Mutant of isValidDownloadURL: the scheme is not compared with http and https.
isValidDownloadURLAnyScheme(rawURL) ==
    /\ ~URLParseError(rawURL)
    /\ URLScheme(rawURL) # <<>>
    /\ URLHost(rawURL) # <<>>

isValidDownloadURL(rawURL) ==
    /\ ~URLParseError(rawURL)
    /\ URLScheme(rawURL) # <<>>
    /\ URLHost(rawURL) # <<>>
    /\ ToLower(URLScheme(rawURL)) \in {<<"h","t","t","p">>, <<"h","t","t","p","s">>}

(***************************************************************************)
(* parseJSONForDownloads                                                   *)
(***************************************************************************)
Item(u, n) == [URL |-> u, FileName |-> n]

\* The loop over the variants: a valid URL that was not seen is appended.
\* Mutant of UniqueDownloads: seenURLs is not consulted.
UniqueDownloadsNoSeen(variants, acc) ==
    LET after[i \in 0..Len(variants)] ==
            IF i = 0 THEN acc
            ELSE LET uniqueDownloads == after[i - 1]
                     variant == variants[i]
                 IN  IF isValidDownloadURL(variant.DownloadURL)
                     THEN Append(uniqueDownloads, Item(variant.DownloadURL, variant.FileName))
                     ELSE uniqueDownloads
    IN  after[Len(variants)]

\* acc is uniqueDownloads before the loop; the URLs of its items are seenURLs.
UniqueDownloads(variants, acc) ==
    LET after[i \in 0..Len(variants)] ==
            IF i = 0 THEN acc
            ELSE LET uniqueDownloads == after[i - 1]
                     variant == variants[i]
                     exists == \E k \in 1..Len(uniqueDownloads) :
                                  uniqueDownloads[k].URL = variant.DownloadURL
                 IN  IF isValidDownloadURL(variant.DownloadURL) /\ ~exists
                     THEN Append(uniqueDownloads, Item(variant.DownloadURL, variant.FileName))
                     ELSE uniqueDownloads
    IN  after[Len(variants)]

\* Mutant of parseJSONForDownloads: the error of json.Unmarshal is ignored
\* and an item decoded before the error is returned.
parseJSONForDownloadsIgnoresError(jsonData) ==
    IF ~jsonData.valid THEN <<Item(URL_A, NAME_A)>>
    ELSE UniqueDownloads(Flatten(jsonData.Results), <<>>)

parseJSONForDownloads(jsonData) ==
    IF ~jsonData.valid THEN <<>> ELSE UniqueDownloads(Flatten(jsonData.Results), <<>>)

\* What parseJSONForDownloads returns for the file of page n in each state
\* the file can be in, tabulated.
ExtractedFrom ==
    [f \in Pages \X {"partial", "full"} |-> parseJSONForDownloads(FileContent(f[1], f[2]))]
        @@ <<>>

(***************************************************************************)
(* The download log.                                                       *)
(***************************************************************************)
Arrow == <<" ", "U+2192", " ">>

\* The line downloadPDFFile writes: finalURL + " -> " + filePath.
LogLine(finalURL, filePath) == finalURL \o Arrow \o filePath

\* loadDownloadLogToMap: the text before the first separator of each
\* non-empty line.  The log is kept as its sequence of lines.
loadDownloadLogToMap(lines) ==
    {Split(lines[i], Arrow)[1] : i \in {k \in 1..Len(lines) : lines[k] # <<>>}}

\* The file path a line records: the text after its last separator.
LinePath(line) == LET parts == Split(line, Arrow) IN parts[Len(parts)]

\* filepath.Join(outputDirectory, filename)
outputDirectoryName == <<"PDFs">>
FilePath(filename) ==
    IF filename = <<>> THEN outputDirectoryName
    ELSE outputDirectoryName \o <<"/">> \o filename

\* The local path downloadPDFFile derives from each suggested name of the
\* sample pages, tabulated.
PathOfName ==
    [n \in {v.FileName : v \in AllVariants} |-> FilePath(urlToFilename(n))] @@ <<>>

\* The local path downloadPDFFile derives for an item.
ItemPath(item) == PathOfName[item.FileName]

Paths == {PathOfName[n] : n \in DOMAIN PathOfName}
\* A URL whose path holds the separator of the log: url.Parse accepts
\* spaces and non-ASCII characters in a path.
URL_ARROW == URL_A \o Arrow \o <<"b">>

\* The URLs of the sample pages and of the document of ArrowPayload.
URLs == {v.DownloadURL : v \in AllVariants} \cup {URL_ARROW}

(***************************************************************************)
(* HTTP responses to the GET of an item and the errors of downloadPDFFile. *)
(***************************************************************************)
DigitSeq == <<"0","1","2","3","4","5","6","7","8","9">>
StatusReason(code) ==
    IF code = 200 THEN <<" OK">>
    ELSE IF code = 404 THEN <<" Not Found">>
    ELSE IF code = 429 THEN <<" Too Many Requests">>
    ELSE <<" ">>
\* resp.Status: the code in decimal and the reason phrase.
StatusText(code) ==
    <<DigitSeq[(code \div 100) + 1], DigitSeq[((code \div 10) % 10) + 1],
      DigitSeq[(code % 10) + 1]>> \o StatusReason(code)

CT_PDF == <<"application/pdf">>
CT_PDF_CHARSET == <<"application/pdf", ";", " ", "charset=binary">>
CT_HTML == <<"text/html">>

\* The outcomes of client.Get and of reading the body that downloadPDFFile
\* tells apart.
Responses ==
    {[transport |-> FALSE, status |-> 200, ctype |-> CT_PDF, body |-> "data"],
     [transport |-> FALSE, status |-> 200, ctype |-> CT_PDF_CHARSET, body |-> "data"],
     [transport |-> FALSE, status |-> 200, ctype |-> CT_PDF, body |-> "empty"],
     [transport |-> FALSE, status |-> 200, ctype |-> CT_PDF, body |-> "readerr"],
     [transport |-> FALSE, status |-> 200, ctype |-> CT_HTML, body |-> "data"],
     [transport |-> FALSE, status |-> 404, ctype |-> CT_HTML, body |-> "data"],
     [transport |-> FALSE, status |-> 429, ctype |-> CT_HTML, body |-> "data"],
     [transport |-> TRUE, status |-> 0, ctype |-> <<>>, body |-> "empty"]}

NoError == [kind |-> "nil", status |-> 0, text |-> <<>>]
Error(kind, status, text) == [kind |-> kind, status |-> status, text |-> text]

ErrTransport(url) ==
    Error("transport", 0,
          <<"failed to download ">> \o url \o <<": ", "Get ">> \o url
              \o <<": dial tcp: connection refused">>)
ErrStatus(url, code) ==
    Error("status", code, <<"download failed for ">> \o url \o <<": ">> \o StatusText(code))
ErrContentType(url, ctype) ==
    Error("ctype", 200,
          <<"invalid content type for ">> \o url \o <<": ">> \o ctype
              \o <<" (expected application/pdf)">>)
ErrRead(url) ==
    Error("read", 200, <<"failed to read PDF data from ">> \o url \o <<": unexpected EOF">>)
ErrEmpty(url) ==
    Error("empty", 200, <<"downloaded ", "0", " bytes for ">> \o url \o <<", not creating file">>)
ErrCreate(filePath) ==
    Error("create", 200, <<"failed to create file ">> \o filePath \o <<": permission denied">>)
ErrWrite(filePath) ==
    Error("write", 200,
          <<"failed to write PDF to file ">> \o filePath \o <<": no space left on device">>)

\* Mutant of ResponseError: the Content-Type check is missing.
ResponseErrorNoContentType(url, r) ==
    IF r.transport THEN ErrTransport(url)
    ELSE IF r.status # 200 THEN ErrStatus(url, r.status)
    ELSE IF r.body = "readerr" THEN ErrRead(url)
    ELSE IF r.body = "empty" THEN ErrEmpty(url)
    ELSE NoError

\* The checks of downloadPDFFile on the response, in the order of the code;
\* NoError when the body is a non-empty PDF.
ResponseError(url, r) ==
    IF r.transport THEN ErrTransport(url)
    ELSE IF r.status # 200 THEN ErrStatus(url, r.status)
    ELSE IF ~Contains(r.ctype, CT_PDF) THEN ErrContentType(url, r.ctype)
    ELSE IF r.body = "readerr" THEN ErrRead(url)
    ELSE IF r.body = "empty" THEN ErrEmpty(url)
    ELSE NoError

\* main's test for rate limiting: strings.Contains(errorString, "429").
IsRateLimitError(errorString) == Contains(errorString, <<"4", "2", "9">>)

(***************************************************************************)
(* State.                                                                  *)
(***************************************************************************)
VARIABLES
    pc,                 \* position of the run in main / downloadPDFFile
    run,                \* number of the current run of main, from 1
    crashes,            \* crashes so far
    ledger,             \* download.txt: its sequence of lines
    disk,               \* the output directory: path -> state of the file
    jsonFile,           \* basf_<n>.json: page -> "absent", "partial", "full"
    alreadyDownloaded,  \* alreadyDownloadedURLs, the in-memory set of main
    pageIndex,          \* loop variable of main
    extracted,          \* extractedDownloads of the current page
    idx,                \* position of fileDownload in extracted, from 1
    attempt,            \* 1 in the first call for the item, 2 in the retry
    err,                \* the error returned by the last call
    gets,               \* history: URL -> item GETs issued in this run
    slept,              \* history: cooldown sleeps for the current item
    firstErr,           \* history: the error of the first call for the item
    callEntry,          \* history: ledger, set, disk and gets at the call's entry
    lastResp,           \* history: the response to the GET of the current call
    runEntry,           \* history: ledger and disk when the run started
    extractedRun,       \* history: URLs extracted in this run
    failedRun,          \* history: URLs whose item ended in a failure in this run
    failedPrev,         \* history: failedRun of the previous complete run
    visited,            \* history: page indices whose iteration began in this run
    called,             \* history: <<page, idx>> of the items downloadPDFFile was called for
    lastGet,            \* history: page, idx and attempt of the last item GET of this run
    fnInput,            \* the argument of the function a function check applies
    fnOutput,           \* the result of that function, once it was applied
    legacy,             \* the state of main of the older variant (src/unnamed/part_000)
    instances           \* the processes of main that run at the same time

vars == <<pc, run, crashes, ledger, disk, jsonFile, alreadyDownloaded, pageIndex,
          extracted, idx, attempt, err, gets, slept, firstErr, callEntry, lastResp,
          runEntry, extractedRun, failedRun, failedPrev, visited, called, lastGet,
          fnInput, fnOutput, legacy, instances>>

durable == <<ledger, disk, jsonFile>>
loopVars == <<pageIndex, extracted, idx, attempt>>
itemHist == <<slept, firstErr>>
callHist == <<callEntry, lastResp>>
runHist == <<runEntry, extractedRun, failedRun, failedPrev>>
progress == <<visited, called, lastGet>>
applied == <<fnInput, fnOutput>>

NoFile == [state |-> "absent", from |-> <<>>]
NoCall == [active |-> FALSE, ledger |-> <<>>, set |-> {}, disk |-> [p \in Paths |-> NoFile],
           gets |-> [u \in URLs |-> 0]]
NoResp == [transport |-> FALSE, status |-> 0, ctype |-> <<>>, body |-> "none"]
NoRun == [ledger |-> <<>>, disk |-> [p \in Paths |-> NoFile]]
NoGet == [page |-> -1, idx |-> 0, attempt |-> 0]
NotApplied == [done |-> FALSE, value |-> <<>>]
Applied(v) == [done |-> TRUE, value |-> v]

\* The item of the current iteration of the inner loop of main.
fileDownload == extracted[idx]
finalURL == fileDownload.URL
filePath == ItemPath(fileDownload)

\* doesFileExist on a path of the output directory.
doesFileExist(path) == disk[path].state # "absent"

\* doesFileExist on basf_<n>.json.
doesJSONFileExist(n) == jsonFile[n] # "absent"

\* Mutant of AlreadyLogged: the set is searched for the file path, not the URL.
AlreadyLoggedByPath(url) == ItemPath(extracted[idx]) \in alreadyDownloaded

\* The first check of downloadPDFFile: the URL is in the in-memory set.
AlreadyLogged(url) == url \in alreadyDownloaded

\* Mutant of appendLineToFile: the file is opened with O_TRUNC.
appendLineToFileTruncating(lines, content, ok) == IF ok THEN <<content>> ELSE lines

\* appendLineToFile: the line is added at the end unless opening or writing
\* the file fails (ok is FALSE then, and nothing is written), which is
\* logged and not reported to the caller.
appendLineToFile(lines, content, ok) == IF ok THEN Append(lines, content) ELSE lines

\* The snapshot taken when downloadPDFFile is entered.
EnterCall ==
    /\ callEntry' = [active |-> TRUE, ledger |-> ledger, set |-> alreadyDownloaded,
                     disk |-> disk, gets |-> gets]
    /\ lastResp' = NoResp

\* main of the older variant is not running.
NoLegacy == [pc |-> "off"]

\* No processes of main run next to each other.
NoInstances == <<>>

\* The state of a fresh working directory before main starts.
InitMain ==
    /\ pc = "start"
    /\ run = 1
    /\ crashes = 0
    /\ ledger = <<>>
    /\ disk = [p \in Paths |-> NoFile]
    /\ jsonFile = [n \in Pages |-> "absent"]
    /\ alreadyDownloaded = {}
    /\ pageIndex = 0
    /\ extracted = <<>>
    /\ idx = 0
    /\ attempt = 0
    /\ err = NoError
    /\ gets = [u \in URLs |-> 0]
    /\ slept = 0
    /\ firstErr = NoError
    /\ callEntry = NoCall
    /\ lastResp = NoResp
    /\ runEntry = NoRun
    /\ extractedRun = {}
    /\ failedRun = {}
    /\ failedPrev = {}
    /\ visited = {}
    /\ called = {}
    /\ lastGet = NoGet

Init ==
    /\ InitMain
    /\ legacy = NoLegacy
    /\ instances = NoInstances
    /\ fnInput = <<>>
    /\ fnOutput = NotApplied

(***************************************************************************)
(* main                                                                    *)
(***************************************************************************)
\* Setup: the download log is read into the in-memory set.
Start ==
    /\ pc = "start"
    /\ alreadyDownloaded' = loadDownloadLogToMap(ledger)
    /\ pageIndex' = 0
    /\ runEntry' = [ledger |-> ledger, disk |-> disk]
    /\ pc' = "page"
    /\ UNCHANGED <<progress, applied, legacy, instances, run, crashes, durable, extracted, idx,
                   attempt, err,
                   gets, itemHist,
                   callHist, extractedRun, failedRun, failedPrev>>

\* downloadDataFromURL up to os.Create: a failed GET, a status other than
\* 200 or a failed os.Create leave no file; otherwise the file is created.
PageGet ==
    /\ pc = "page"
    /\ ~doesJSONFileExist(pageIndex)
    /\ \E ok \in BOOLEAN :
          IF ok
          THEN /\ jsonFile' = [jsonFile EXCEPT ![pageIndex] = "partial"]
               /\ pc' = "pagecopy"
          ELSE /\ pc' = "parse"
               /\ UNCHANGED jsonFile
    /\ visited' = visited \cup {pageIndex}
    /\ UNCHANGED <<called, lastGet, applied, legacy, instances, run, crashes, ledger, disk,
                   alreadyDownloaded,
                   loopVars, err, gets,
                   itemHist, callHist, runHist>>

\* downloadDataFromURL, io.Copy: on an error the file keeps what was written.
PageCopy ==
    /\ pc = "pagecopy"
    /\ \E ok \in BOOLEAN :
          jsonFile' = [jsonFile EXCEPT ![pageIndex] = IF ok THEN "full" ELSE "partial"]
    /\ pc' = "parse"
    /\ UNCHANGED <<progress, applied, legacy, instances, run, crashes, ledger, disk,
                   alreadyDownloaded,
                   loopVars,
                   err, gets,
                   itemHist, callHist, runHist>>

\* The saved page file is reused.
PageCached ==
    /\ pc = "page"
    /\ doesJSONFileExist(pageIndex)
    /\ pc' = "parse"
    /\ visited' = visited \cup {pageIndex}
    /\ UNCHANGED <<called, lastGet, applied, legacy, instances, run, crashes, durable,
                   alreadyDownloaded,
                   loopVars, err, gets,
                   itemHist, callHist, runHist>>

\* The page file exists: its content is parsed and the inner loop starts.
ParsePage ==
    /\ pc = "parse"
    /\ doesJSONFileExist(pageIndex)
    /\ extracted' = ExtractedFrom[<<pageIndex, jsonFile[pageIndex]>>]
    /\ extractedRun' = extractedRun \cup {extracted'[i].URL : i \in 1..Len(extracted')}
    /\ idx' = 1
    /\ pc' = "item"
    /\ UNCHANGED <<progress, applied, legacy, instances, run, crashes, durable,
                   alreadyDownloaded, pageIndex,
                   attempt, err, gets,
                   itemHist, callHist, runEntry, failedRun, failedPrev>>

\* Mutant of SkipPage: main returns when a page file does not exist.
SkipPageAborts ==
    /\ pc = "parse"
    /\ ~doesJSONFileExist(pageIndex)
    /\ extracted' = <<>>
    /\ idx' = 0
    /\ pc' = "done"
    /\ UNCHANGED <<progress, applied, legacy, instances, run, crashes, durable,
                   alreadyDownloaded, pageIndex,
                   attempt, err, gets, itemHist, callHist, runHist>>

\* The page file does not exist: the page is skipped.
SkipPage ==
    /\ pc = "parse"
    /\ ~doesJSONFileExist(pageIndex)
    /\ extracted' = <<>>
    /\ idx' = 1
    /\ pc' = "item"
    /\ UNCHANGED <<progress, applied, legacy, instances, run, crashes, durable,
                   alreadyDownloaded, pageIndex,
                   attempt, err, gets,
                   itemHist, callHist, runHist>>

\* The next item of the page: the first call of downloadPDFFile for it.
ItemBegin ==
    /\ pc = "item"
    /\ idx <= Len(extracted)
    /\ attempt' = 1
    /\ err' = NoError
    /\ slept' = 0
    /\ firstErr' = NoError
    /\ EnterCall
    /\ called' = called \cup {<<pageIndex, idx>>}
    /\ pc' = "call"
    /\ UNCHANGED <<visited, lastGet, applied, legacy, instances, run, crashes, durable,
                   alreadyDownloaded,
                   pageIndex, extracted, idx, gets, runHist>>

\* The inner loop is over: the next page, or the end of main.
PageEnd ==
    /\ pc = "item"
    /\ idx > Len(extracted)
    /\ IF pageIndex < maxPageIndex
       THEN pageIndex' = pageIndex + 1 /\ pc' = "page"
       ELSE pageIndex' = pageIndex /\ pc' = "done"
    /\ extracted' = <<>>
    /\ idx' = 0
    /\ attempt' = 0
    /\ err' = NoError
    /\ slept' = 0
    /\ firstErr' = NoError
    /\ callEntry' = NoCall
    /\ lastResp' = NoResp
    /\ UNCHANGED <<progress, applied, legacy, instances, run, crashes, durable,
                   alreadyDownloaded, gets,
                   runHist>>

(***************************************************************************)
(* downloadPDFFile                                                         *)
(***************************************************************************)
InCall == pc \in {"call", "create", "write", "record", "ret"}

\* Mutant of SkipLogged: the line is appended again for a URL of the set.
SkipLoggedAppends ==
    /\ pc = "call"
    /\ AlreadyLogged(finalURL)
    /\ ledger' = appendLineToFile(ledger, LogLine(finalURL, filePath), TRUE)
    /\ err' = NoError
    /\ pc' = "ret"
    /\ UNCHANGED <<progress, applied, legacy, instances, run, crashes, disk, jsonFile,
                   alreadyDownloaded,
                   loopVars, gets, itemHist,
                   callHist, runHist>>

\* 1. The URL is in the in-memory set: nothing is done.
SkipLogged ==
    /\ pc = "call"
    /\ AlreadyLogged(finalURL)
    /\ err' = NoError
    /\ pc' = "ret"
    /\ UNCHANGED <<progress, applied, legacy, instances, run, crashes, durable, alreadyDownloaded,
                   loopVars, gets,
                   itemHist,
                   callHist, runHist>>

\* Mutant of SkipExists: the URL is not added to the in-memory set.
SkipExistsNoSetUpdate ==
    /\ pc = "call"
    /\ ~AlreadyLogged(finalURL)
    /\ doesFileExist(filePath)
    /\ \E ok \in BOOLEAN :
          ledger' = appendLineToFile(ledger, LogLine(finalURL, filePath), ok)
    /\ err' = NoError
    /\ pc' = "ret"
    /\ UNCHANGED <<progress, applied, legacy, instances, run, crashes, disk, jsonFile,
                   alreadyDownloaded,
                   loopVars, gets, itemHist,
                   callHist, runHist>>

\* 2. The file exists on disk: the line is appended to the log (an append
\* error is only logged) and the URL is added to the set.
SkipExists ==
    /\ pc = "call"
    /\ ~AlreadyLogged(finalURL)
    /\ doesFileExist(filePath)
    /\ \E ok \in BOOLEAN :
          ledger' = appendLineToFile(ledger, LogLine(finalURL, filePath), ok)
    /\ alreadyDownloaded' = alreadyDownloaded \cup {finalURL}
    /\ err' = NoError
    /\ pc' = "ret"
    /\ UNCHANGED <<progress, applied, legacy, instances, run, crashes, disk, jsonFile,
                   loopVars, gets,
                   itemHist,
                   callHist,
                   runHist>>

\* The GET and the checks of the response; the body is read into memory.
Download ==
    /\ pc = "call"
    /\ ~AlreadyLogged(finalURL)
    /\ ~doesFileExist(filePath)
    /\ gets' = [gets EXCEPT ![finalURL] = @ + 1]
    /\ lastGet' = [page |-> pageIndex, idx |-> idx, attempt |-> attempt]
    /\ \E r \in Responses :
          /\ lastResp' = r
          /\ err' = ResponseError(finalURL, r)
          /\ pc' = IF err'.kind = "nil" THEN "create" ELSE "ret"
    /\ UNCHANGED <<visited, called, applied, legacy, instances, run, crashes, durable,
                   alreadyDownloaded,
                   loopVars, itemHist,
                   callEntry, runHist>>

\* os.Create: the file exists and is empty, or the call fails.
CreateFile ==
    /\ pc = "create"
    /\ \E ok \in BOOLEAN :
          IF ok
          THEN /\ disk' = [disk EXCEPT ![filePath] = [state |-> "partial", from |-> finalURL]]
               /\ pc' = "write"
               /\ UNCHANGED err
          ELSE /\ err' = ErrCreate(filePath)
               /\ pc' = "ret"
               /\ UNCHANGED disk
    /\ UNCHANGED <<progress, applied, legacy, instances, run, crashes, ledger, jsonFile,
                   alreadyDownloaded,
                   loopVars, gets,
                   itemHist, callHist, runHist>>

\* Mutant of WriteFile: the error of the write is ignored.
WriteFileErrorIgnored ==
    /\ pc = "write"
    /\ \E ok \in BOOLEAN :
          IF ok
          THEN disk' = [disk EXCEPT ![filePath] = [state |-> "full", from |-> finalURL]]
          ELSE UNCHANGED disk
    /\ pc' = "record"
    /\ UNCHANGED <<progress, applied, legacy, instances, run, crashes, ledger, jsonFile,
                   alreadyDownloaded,
                   loopVars, err, gets,
                   itemHist, callHist, runHist>>

\* buffer.WriteTo: the whole body is in the file, or the write fails and the
\* file keeps what was written.
WriteFile ==
    /\ pc = "write"
    /\ \E ok \in BOOLEAN :
          IF ok
          THEN /\ disk' = [disk EXCEPT ![filePath] = [state |-> "full", from |-> finalURL]]
               /\ pc' = "record"
               /\ UNCHANGED err
          ELSE /\ err' = ErrWrite(filePath)
               /\ pc' = "ret"
               /\ UNCHANGED disk
    /\ UNCHANGED <<progress, applied, legacy, instances, run, crashes, ledger, jsonFile,
                   alreadyDownloaded,
                   loopVars, gets,
                   itemHist, callHist, runHist>>

\* The line is appended to the log (an append error is only logged) and
\* the URL is added to the set.
RecordDownload ==
    /\ pc = "record"
    /\ \E ok \in BOOLEAN :
          ledger' = appendLineToFile(ledger, LogLine(finalURL, filePath), ok)
    /\ alreadyDownloaded' = alreadyDownloaded \cup {finalURL}
    /\ err' = NoError
    /\ pc' = "ret"
    /\ UNCHANGED <<progress, applied, legacy, instances, run, crashes, disk, jsonFile,
                   loopVars, gets,
                   itemHist,
                   callHist,
                   runHist>>

(***************************************************************************)
(* main: what follows a call of downloadPDFFile.                           *)
(***************************************************************************)
\* Mutant of ShouldRetry: the retry is a loop, taken after every failed call.
ShouldRetryEveryCall == err.kind # "nil" /\ IsRateLimitError(err.text)

\* The first call failed and the text of its error contains "429".
ShouldRetry == attempt = 1 /\ err.kind # "nil" /\ IsRateLimitError(err.text)

\* time.Sleep(3 * time.Minute) begins.
BeginSleep ==
    /\ pc = "ret"
    /\ ShouldRetry
    /\ firstErr' = err
    /\ slept' = slept + 1
    /\ pc' = "sleep"
    /\ UNCHANGED <<progress, applied, legacy, instances, run, crashes, durable, alreadyDownloaded,
                   loopVars, err,
                   gets,
                   callHist, runHist>>

\* The sleep is over: the second call of downloadPDFFile for the same item.
RetryCall ==
    /\ pc = "sleep"
    /\ attempt' = attempt + 1
    /\ err' = NoError
    /\ EnterCall
    /\ pc' = "call"
    /\ UNCHANGED <<progress, applied, legacy, instances, run, crashes, durable,
                   alreadyDownloaded, pageIndex,
                   extracted, idx,
                   gets, itemHist, runHist>>

\* Mutant of ItemEnd: after an item that failed the loop over the items of
\* the page starts again.
ItemEndRetriesPage ==
    /\ pc = "ret"
    /\ ~ShouldRetry
    /\ firstErr' = IF attempt = 1 THEN err ELSE firstErr
    /\ failedRun' = IF err.kind # "nil" THEN failedRun \cup {finalURL} ELSE failedRun
    /\ idx' = IF err.kind # "nil" THEN 1 ELSE idx + 1
    /\ callEntry' = NoCall
    /\ lastResp' = NoResp
    /\ pc' = "item"
    /\ UNCHANGED <<progress, applied, legacy, instances, run, crashes, durable,
                   alreadyDownloaded, pageIndex,
                   extracted, attempt, err, gets, slept, runEntry, extractedRun, failedPrev>>

\* No retry: the error, if any, is logged and the loop goes to the next item.
ItemEnd ==
    /\ pc = "ret"
    /\ ~ShouldRetry
    /\ firstErr' = IF attempt = 1 THEN err ELSE firstErr
    /\ failedRun' = IF err.kind # "nil" THEN failedRun \cup {finalURL} ELSE failedRun
    /\ idx' = idx + 1
    /\ callEntry' = NoCall
    /\ lastResp' = NoResp
    /\ pc' = "item"
    /\ UNCHANGED <<progress, applied, legacy, instances, run, crashes, durable,
                   alreadyDownloaded, pageIndex,
                   extracted, attempt,
                   err, gets, slept, runEntry, extractedRun, failedPrev>>

(***************************************************************************)
(* Runs: main is started again after it ended or after it crashed.         *)
(***************************************************************************)
ResetProcess ==
    /\ pc' = "start"
    /\ run' = run + 1
    /\ alreadyDownloaded' = {}
    /\ pageIndex' = 0
    /\ extracted' = <<>>
    /\ idx' = 0
    /\ attempt' = 0
    /\ err' = NoError
    /\ gets' = [u \in URLs |-> 0]
    /\ slept' = 0
    /\ firstErr' = NoError
    /\ callEntry' = NoCall
    /\ lastResp' = NoResp
    /\ runEntry' = NoRun
    /\ extractedRun' = {}
    /\ failedRun' = {}
    /\ visited' = {}
    /\ called' = {}
    /\ lastGet' = NoGet

NextRun ==
    /\ pc = "done"
    /\ run < MaxRuns
    /\ ResetProcess
    /\ failedPrev' = failedRun
    /\ UNCHANGED <<crashes, durable, applied, legacy, instances>>

\* The process dies inside downloadPDFFile or while a page file is written;
\* the files keep what was written and main is started again.
Crash ==
    /\ pc \in {"call", "create", "write", "record", "pagecopy"}
    /\ crashes < MaxCrashes
    /\ run < MaxRuns
    /\ ResetProcess
    /\ crashes' = crashes + 1
    /\ failedPrev' = {}
    /\ UNCHANGED <<durable, applied, legacy, instances>>

Next ==
    \/ Start \/ PageGet \/ PageCopy \/ PageCached \/ ParsePage \/ SkipPage
    \/ ItemBegin \/ PageEnd
    \/ SkipLogged \/ SkipExists \/ Download \/ CreateFile \/ WriteFile \/ RecordDownload
    \/ BeginSleep \/ RetryCall \/ ItemEnd
    \/ NextRun \/ Crash

Spec == Init /\ [][Next]_vars

(***************************************************************************)
(* Properties.                                                             *)
(***************************************************************************)
\* A call of downloadPDFFile has returned and main has not yet acted on it.
Returned == pc = "ret" /\ callEntry.active

\* The call that is running or has just returned issued a GET.
ReachedDownload == InCall /\ callEntry.active /\ gets[finalURL] > callEntry.gets[finalURL]

\* The item whose iteration of the inner loop has just ended.
ItemEnded == pc = "item" /\ attempt > 0
endedItem == extracted[idx - 1]

\* The response makes downloadPDFFile fail before it creates the file.
BadResponse(r) ==
    \/ r.transport
    \/ r.status # 200
    \/ ~Contains(r.ctype, CT_PDF)
    \/ r.body \in {"readerr", "empty"}

AllURLsExtracted == {URL_A, URL_B429, URL_C}

C2_LedgerEntriesComplete ==
    \A i \in 1..Len(ledger) : disk[LinePath(ledger[i])].state = "full"

\* C3 (record after write): in a call that reached the download path, the
\* download log and the in-memory set differ from what they were at the
\* call's entry only once the file is completely written and the call has
\* succeeded; in particular not when os.Create or the write failed.
C3_RecordAfterWrite ==
    (ReachedDownload /\ (ledger # callEntry.ledger \/ alreadyDownloaded # callEntry.set))
        => /\ pc = "ret"
           /\ err.kind = "nil"
           /\ disk[filePath] = [state |-> "full", from |-> finalURL]

C3_Witness ==
    /\ ReachedDownload
    /\ pc = "ret"
    /\ ledger = Append(callEntry.ledger, LogLine(finalURL, filePath))
    /\ alreadyDownloaded = callEntry.set \cup {finalURL}

\* C4 (429 backoff): an item has at most two calls and one sleep; when the
\* first call failed with status 429 the item ends after exactly one sleep
\* and a second call, and when that call succeeded the URL is in the
\* in-memory set of recorded URLs.
C4_Backoff ==
    /\ attempt <= 2
    /\ slept <= 1
    /\ (ItemEnded /\ firstErr.kind = "status" /\ firstErr.status = 429)
          => /\ slept = 1
             /\ attempt = 2
             /\ (err.kind = "nil" => endedItem.URL \in alreadyDownloaded)

C4_Witness ==
    /\ ItemEnded
    /\ firstErr.kind = "status"
    /\ firstErr.status = 429
    /\ slept = 1
    /\ attempt = 2
    /\ err.kind = "nil"
    /\ endedItem.URL \in alreadyDownloaded

\* C5 (retry only on 429): a cooldown sleep happens only when the first call
\* failed with response status 429.
C5_RetryOnlyOn429 ==
    slept > 0 => (firstErr.kind = "status" /\ firstErr.status = 429)

C8_FailuresResumed ==
    /\ pc = "done"
          => /\ failedRun \cap alreadyDownloaded = {}
             /\ failedRun \cap loadDownloadLogToMap(ledger) = {}
    /\ (pc = "done" /\ run >= 2) => \A u \in failedPrev : gets[u] > 0

\* C9 (pre-write failures): when the response is a transport error, a status
\* other than 200, a content type without application/pdf, a body read
\* error or an empty body, the call returns an error at once and the output
\* directory, the download log and the set are as at the call's entry.
C9_PreWriteFailure ==
    (InCall /\ callEntry.active /\ lastResp # NoResp /\ BadResponse(lastResp))
        => /\ pc = "ret"
           /\ err.kind # "nil"
           /\ disk = callEntry.disk
           /\ ledger = callEntry.ledger
           /\ alreadyDownloaded = callEntry.set

C9_Witness ==
    /\ Returned
    /\ lastResp.status = 200
    /\ lastResp.ctype = CT_HTML
    /\ err.kind = "ctype"

\* C10 (done implies recorded): every URL of the in-memory set has a line in
\* the download log.
C10_SetWithinLedger ==
    alreadyDownloaded \subseteq loadDownloadLogToMap(ledger)

\* C11 (cross-page duplicates): within one run a URL is fetched as a single
\* item: the first call of downloadPDFFile for an item whose URL an earlier
\* item of the same run was already fetched for issues no GET, whether that
\* earlier fetch succeeded or failed.
C11_SingleFetchAcrossPages ==
    (InCall /\ callEntry.active /\ attempt = 1 /\ callEntry.gets[finalURL] > 0)
        => gets[finalURL] = callEntry.gets[finalURL]

(***************************************************************************)
(* The download log written and read back: entries are drawn from a        *)
(* bounded set, appended with appendLineToFile and loaded with             *)
(* loadDownloadLogToMap.                                                   *)
(***************************************************************************)
MaxEntries == 2

\* The variables of main that a function check leaves alone, the log apart.
mainIdle == <<progress, pc, run, crashes, disk, jsonFile, alreadyDownloaded, loopVars, err, gets,
              itemHist, callHist, runHist>>

SeqsUpTo(S, n) == UNION {[1..k -> S] : k \in 0..n}

\* The URLs that can be recorded: downloadPDFFile is called for URLs that
\* passed isValidDownloadURL only.
RecordableURLs == {u \in {URL_A, URL_C, URL_FTP, URL_ARROW} : isValidDownloadURL(u)}
Entries == [url : RecordableURLs, path : Paths]

InitLedger ==
    /\ InitMain
    /\ legacy = NoLegacy
    /\ instances = NoInstances
    /\ fnInput \in SeqsUpTo(Entries, MaxEntries)
    /\ fnOutput = NotApplied

\* The next entry is recorded as downloadPDFFile records it.
RecordEntry ==
    /\ ~fnOutput.done
    /\ Len(ledger) < Len(fnInput)
    /\ LET e == fnInput[Len(ledger) + 1]
       IN  ledger' = appendLineToFile(ledger, LogLine(e.url, e.path), TRUE)
    /\ UNCHANGED <<mainIdle, applied, legacy, instances>>

\* The log is read back as main does when it starts.
LoadLog ==
    /\ ~fnOutput.done
    /\ Len(ledger) = Len(fnInput)
    /\ fnOutput' = Applied(loadDownloadLogToMap(ledger))
    /\ UNCHANGED <<mainIdle, legacy, instances, ledger, fnInput>>

NextLedger == RecordEntry \/ LoadLog

SpecLedger == InitLedger /\ [][NextLedger]_vars

\* C12 (ledger round trip): whatever sequence of entries with valid URLs was
\* appended to the download log, loadDownloadLogToMap returns exactly the
\* set of the recorded URLs, and the empty set when nothing was recorded.
C12_LedgerRoundTrip ==
    fnOutput.done => fnOutput.value = {fnInput[i].url : i \in DOMAIN fnInput}

\* C13 (ledger append-only): every step leaves the lines the download log
\* held as a prefix of the lines it holds afterwards, and within a run the
\* in-memory set only grows.
C13_AppendOnly ==
    [][/\ HasPrefix(ledger', ledger)
       /\ run' = run => alreadyDownloaded \subseteq alreadyDownloaded']_vars

\* A second run has appended to a log that held a line of the first run.
C13_Witness ==
    /\ run = 2
    /\ Len(runEntry.ledger) >= 1
    /\ Len(ledger) > Len(runEntry.ledger)
    /\ alreadyDownloaded # {}

(***************************************************************************)
(* A run of main that nothing kills: the steps of the sequential program   *)
(* are taken as long as one is enabled, which is what "every HTTP request  *)
(* returns or times out and every cooldown sleep ends" says.               *)
(***************************************************************************)
NextLive ==
    \/ Start \/ PageGet \/ PageCopy \/ PageCached \/ ParsePage \/ SkipPage
    \/ ItemBegin \/ PageEnd
    \/ SkipLogged \/ SkipExists \/ Download \/ CreateFile \/ WriteFile \/ RecordDownload
    \/ BeginSleep \/ RetryCall \/ ItemEnd
    \/ NextRun

LiveSpec == Init /\ [][NextLive]_vars /\ WF_vars(NextLive)

\* The calls of downloadPDFFile a complete run makes: one for every item
\* extracted from every page whose file exists.
ExpectedCalls ==
    {<<p, i>> \in Pages \X (1..Cardinality(AllVariants)) :
        /\ doesJSONFileExist(p)
        /\ i <= Len(ExtractedFrom[<<p, jsonFile[p]>>])}

RunComplete == pc = "done" /\ visited = Pages /\ called = ExpectedCalls

\* C14 (run to completion): every run of main that has started reaches its
\* end having visited every page index 0..maxPageIndex and having called
\* downloadPDFFile for every item extracted from every available page,
\* whatever the outcome of the page fetches, the parses and the item fetches:
\* a run that has started ends, the run number changes only after the end
\* of a run, and wherever main has ended the run is complete.
C14_RunToCompletion ==
    /\ (pc = "start") ~> (pc = "done")
    /\ [][run' # run => pc = "done"]_vars
    /\ [](pc = "done" => RunComplete)

\* A run has ended although a page was not available or not parseable and
\* the fetch of an item failed.
C14_Witness ==
    /\ RunComplete
    /\ \E p \in Pages : jsonFile[p] # "full"
    /\ failedRun # {}

(***************************************************************************)
(* parseJSONForDownloads applied to page documents drawn from a bounded    *)
(* set: up to MaxVariants variants in two result containers, or a document *)
(* that is not valid JSON.                                                 *)
(***************************************************************************)
MaxVariants == 3

URL_EMPTYHOST == HTTP

SampleVariants ==
    {Variant(URL_A, NAME_A), Variant(URL_A, NAME_OTHER), Variant(URL_C, NAME_A),
     Variant(URL_FTP, NAME_OTHER), Variant(<<>>, NAME_OTHER), Variant(URL_NOHOST, NAME_A),
     Variant(URL_EMPTYHOST, NAME_A)}

Documents ==
    {[valid |-> FALSE, Results |-> <<>>]}
        \cup {[valid |-> TRUE,
               Results |-> <<SubSeq(vs, 1, k), SubSeq(vs, k + 1, Len(vs))>>] :
                  <<vs, k>> \in {x \in SeqsUpTo(SampleVariants, MaxVariants) \X (0..MaxVariants) :
                                    x[2] <= Len(x[1])}}

InitParse ==
    /\ InitMain
    /\ legacy = NoLegacy
    /\ instances = NoInstances
    /\ fnInput \in Documents
    /\ fnOutput = NotApplied

ApplyParse ==
    /\ ~fnOutput.done
    /\ fnOutput' = Applied(parseJSONForDownloads(fnInput))
    /\ UNCHANGED <<mainIdle, legacy, instances, ledger, fnInput>>

NextParse == ApplyParse

SpecParse == InitParse /\ [][NextParse]_vars

\* The variants of the document in results/variants order.
inputVariants == Flatten(fnInput.Results)

\* The position of the first variant with URL u.
FirstPosition(u) ==
    CHOOSE p \in 1..Len(inputVariants) :
        /\ inputVariants[p].DownloadURL = u
        /\ \A q \in 1..(p - 1) : inputVariants[q].DownloadURL # u

\* C15 (extractor de-duplication and order): the list parseJSONForDownloads
\* returns holds no URL twice, every item has the URL and the file name of
\* the first variant with that URL, and the items are in the order of these
\* first occurrences.
C15_DedupAndOrder ==
    fnOutput.done =>
        LET out == fnOutput.value
        IN  /\ \A i, j \in 1..Len(out) : i # j => out[i].URL # out[j].URL
            /\ \A i \in 1..Len(out) :
                  /\ \E p \in 1..Len(inputVariants) : inputVariants[p].DownloadURL = out[i].URL
                  /\ out[i].FileName = inputVariants[FirstPosition(out[i].URL)].FileName
            /\ \A i, j \in 1..Len(out) :
                  i < j => FirstPosition(out[i].URL) < FirstPosition(out[j].URL)

\* A document that lists a valid URL twice with two file names, after another
\* valid URL, was parsed.
C15_Witness ==
    /\ fnOutput.done
    /\ Len(fnOutput.value) = 2
    /\ \E p, q \in 1..Len(inputVariants) :
          /\ p < q
          /\ inputVariants[p].DownloadURL = inputVariants[q].DownloadURL
          /\ inputVariants[p].FileName # inputVariants[q].FileName
          /\ inputVariants[p].DownloadURL = fnOutput.value[2].URL

\* An absolute http or https URI with a non-empty host, read off the text:
\* the scheme in any case, "://", and a first character of the authority.
AbsoluteHTTPWithHost(u) ==
    \E prefix \in {HTTP, <<"h","t","t","p","s",":","/","/">>} :
        /\ HasPrefix(ToLower(u), prefix)
        /\ Len(u) > Len(prefix)
        /\ u[Len(prefix) + 1] \notin {"/", "?", "#"}

\* C16 (URL validation): parseJSONForDownloads keeps the URL of a variant if
\* and only if it is an absolute http or https URI with a non-empty host;
\* the other variants are dropped and the valid ones are all kept.
C16_URLValidation ==
    fnOutput.done =>
        {fnOutput.value[i].URL : i \in 1..Len(fnOutput.value)}
            = {inputVariants[p].DownloadURL :
                  p \in {q \in 1..Len(inputVariants) :
                            AbsoluteHTTPWithHost(inputVariants[q].DownloadURL)}}

\* A document with an ftp URL, an empty URL and an upper-case HTTPS URL was
\* parsed and one item was kept.
C16_Witness ==
    /\ fnOutput.done
    /\ Len(fnOutput.value) = 1
    /\ fnOutput.value[1].URL = URL_C
    /\ \E p, q \in 1..Len(inputVariants) :
          inputVariants[p].DownloadURL = URL_FTP /\ inputVariants[q].DownloadURL = <<>>


(***************************************************************************)
(* C17. Collision resistance of the local names.                          *)
(***************************************************************************)
\* C17: while downloadPDFFile runs for an item, the local path it derived
\* through urlToFilename is not the path derived for any item of the same
\* page with a different URL, so that two distinct URLs never share a local
\* path.
C17_DistinctPaths ==
    InCall =>
        \A j \in DOMAIN extracted :
            extracted[j].URL # finalURL => ItemPath(extracted[j]) # filePath


(***************************************************************************)
(* urlToFilename as a function of its argument: the argument is drawn      *)
(* from the strings of up to MaxNameLen characters over NameChars and from *)
(* the suggested names of the sample pages, and ApplyName applies the      *)
(* function once.                                                          *)
(***************************************************************************)
MaxNameLen == 4
NameChars == {"a", "P", ".", "_", "/", "-"}
\* A name that holds "_pdf" before its extension.
NAME_PDF_INSIDE == <<"a", "_", "p", "d", "f", "_", "b", ".", "p", "d", "f">>
Names ==
    SeqsUpTo(NameChars, MaxNameLen) \cup {v.FileName : v \in AllVariants} \cup {NAME_PDF_INSIDE}

InitName ==
    /\ InitMain
    /\ legacy = NoLegacy
    /\ instances = NoInstances
    /\ fnInput \in Names
    /\ fnOutput = NotApplied

ApplyName ==
    /\ ~fnOutput.done
    /\ fnOutput' = Applied(urlToFilename(fnInput))
    /\ UNCHANGED <<fnInput, mainIdle, legacy, instances, ledger>>

NextName == ApplyName
SpecName == InitName /\ [][NextName]_vars

(***************************************************************************)
(* C18. The extension of the local name.                                   *)
(***************************************************************************)
HasSuffix(s, suffix) ==
    Len(suffix) <= Len(s) /\ SubSeq(s, Len(s) - Len(suffix) + 1, Len(s)) = suffix

\* C18: whatever string urlToFilename is given, the file name it returns
\* ends with ".pdf".
C18_EndsWithPdf ==
    fnOutput.done => HasSuffix(fnOutput.value, <<".", "p", "d", "f">>)

(***************************************************************************)
(* C19. The characters of the local name.                                  *)
(***************************************************************************)
\* A stem of a-z, 0-9 and "_", then one "." and an extension of a-z, 0-9.
SafeName(s) ==
    \E k \in 1..Len(s) :
        /\ s[k] = "."
        /\ k < Len(s)
        /\ \A i \in 1..(k - 1) : s[i] \in Letters \cup Digits \cup {"_"}
        /\ \A i \in (k + 1)..Len(s) : s[i] \in Letters \cup Digits

\* C19: whatever string urlToFilename is given, the file name it returns
\* consists of characters a-z, 0-9 and "_" followed by one extension made
\* of "." and characters a-z, 0-9.
C19_SafeCharacters ==
    fnOutput.done => SafeName(fnOutput.value)


(***************************************************************************)
(* C20. The order of the item GETs of a run.                               *)
(***************************************************************************)
\* GET a comes before GET b in the order of pages, then of the items of a
\* page, then of the two calls for an item.
GetBefore(a, b) ==
    \/ a.page < b.page
    \/ a.page = b.page /\ a.idx < b.idx
    \/ a.page = b.page /\ a.idx = b.idx /\ a.attempt < b.attempt

\* C20: within a run, every item GET is issued for an item that comes after
\* the item of the GET before it in page order and, within a page, in
\* extraction order, or is the second GET for the same item; a step taken
\* while main sleeps issues no GET and is the retry call for the item that
\* slept, so that the retry precedes every GET for another item.
C20_FetchOrder ==
    [][run' = run =>
          /\ gets' # gets =>
                /\ pc = "call"
                /\ lastGet' = [page |-> pageIndex, idx |-> idx, attempt |-> attempt]
                /\ GetBefore(lastGet, lastGet')
                /\ gets' = [gets EXCEPT ![extracted[idx].URL] = @ + 1]
          /\ pc = "sleep" =>
                /\ gets' = gets
                /\ pc' = "call"
                /\ <<pageIndex', extracted', idx'>> = <<pageIndex, extracted, idx>>
                /\ attempt' = 2]_vars

\* The retry GET of the second item of page 1 was issued after a cooldown,
\* and GETs were issued on page 0 before it.
C20_Witness ==
    /\ lastGet = [page |-> 1, idx |-> 2, attempt |-> 2]
    /\ slept = 1
    /\ gets[URL_C] = 2
    /\ gets[URL_B429] >= 1
    /\ gets[URL_A] = 2


(***************************************************************************)
(* C21. A page whose saved payload is not valid JSON.                      *)
(***************************************************************************)
\* The file of the current page exists and does not hold valid JSON.
InvalidPage ==
    /\ pc \in {"parse", "item"}
    /\ doesJSONFileExist(pageIndex)
    /\ ~FileContent(pageIndex, jsonFile[pageIndex]).valid

\* C21: when the saved payload of the current page is not valid JSON,
\* parsing it yields the empty item list, the step after it calls
\* downloadPDFFile for no item and goes to the next page index (or ends
\* main after the last page), and neither step changes the download log,
\* the output directory or the number of item GETs.
C21_ParseFailureNonFatal ==
    [][(InvalidPage /\ run' = run) =>
          /\ <<ledger', disk', gets'>> = <<ledger, disk, gets>>
          /\ pc = "parse" => (extracted' = <<>> /\ pc' = "item" /\ pageIndex' = pageIndex)
          /\ pc = "item" =>
                IF pageIndex < maxPageIndex
                THEN pc' = "page" /\ pageIndex' = pageIndex + 1
                ELSE pc' = "done"]_vars

\* Page 0 was saved incompletely in this run, no item was handled and main
\* is at page 1.
C21_Witness ==
    /\ pc = "page"
    /\ pageIndex = 1
    /\ jsonFile[0] = "partial"
    /\ visited = {0}
    /\ called = {}
    /\ ledger = runEntry.ledger
    /\ disk = runEntry.disk


(***************************************************************************)
(* C22. urlToFilename in different states of the log and the disk.         *)
(*                                                                         *)
(* The name is derived once; then files are stored and recorded and main   *)
(* is started again, and in every state reached the name derived for the   *)
(* same string is compared with the first one.                             *)
(***************************************************************************)
MaxStableLen == 2
StableNames == SeqsUpTo(NameChars, MaxStableLen) \cup {v.FileName : v \in AllVariants}

\* Mutant of sanitizedName: a name whose file exists already is numbered.
sanitizedNameAvoidingExisting(filename) ==
    LET name == urlToFilename(filename)
    IN  IF FilePath(name) \in Paths /\ doesFileExist(FilePath(name))
        THEN <<"1", "_">> \o name
        ELSE name

\* downloadPDFFile: filename = urlToFilename(filename)
sanitizedName(filename) == urlToFilename(filename)

InitStable ==
    /\ InitMain
    /\ legacy = NoLegacy
    /\ instances = NoInstances
    /\ fnInput \in StableNames
    /\ fnOutput = NotApplied

\* The first call for the string.
FirstCall ==
    /\ ~fnOutput.done
    /\ fnOutput' = Applied(sanitizedName(fnInput))
    /\ UNCHANGED <<fnInput, mainIdle, legacy, instances, ledger>>

\* An item of the sample pages is stored and recorded.
StoreAndRecord ==
    /\ Len(ledger) < MaxEntries
    /\ \E v \in {w \in AllVariants : isValidDownloadURL(w.DownloadURL)} :
          LET item == Item(v.DownloadURL, v.FileName)
          IN  /\ disk' = [disk EXCEPT ![ItemPath(item)] = [state |-> "full", from |-> item.URL]]
              /\ ledger' = appendLineToFile(ledger, LogLine(item.URL, ItemPath(item)), TRUE)
    /\ UNCHANGED <<applied, legacy, instances, progress, pc, run, crashes, jsonFile,
                   alreadyDownloaded,
                   loopVars, err, gets, itemHist, callHist, runHist>>

\* main is started again.
Restart ==
    /\ run < MaxRuns
    /\ run' = run + 1
    /\ UNCHANGED <<applied, legacy, instances, progress, pc, crashes, durable, alreadyDownloaded,
                   loopVars, err, gets, itemHist, callHist, runHist>>

NextStable == FirstCall \/ StoreAndRecord \/ Restart
SpecStable == InitStable /\ [][NextStable]_vars

ContentFetched(url) ==
    \E p \in Paths : disk[p].state # "absent" /\ disk[p].from = url

\* C23: main having started with an empty output directory and an empty
\* download log, every URL recorded in the download log is one for which a
\* GET of that URL returned a PDF body for which a local file was created.
C23_LedgerProvenance ==
    \A url \in loadDownloadLogToMap(ledger) : ContentFetched(url)


(***************************************************************************)
(* C24. What the removal of "_<ext>" leaves of the name.                   *)
(***************************************************************************)
\* The last path segment of the lower-cased string without its extension.
BaseWithoutExt(s) ==
    LET segment == getFileNameOnly(ToLower(s))
    IN  SubSeq(segment, 1, Len(segment) - Len(getFileExtension(ToLower(s))))

\* The string is base.ext with an extension of at least one character and a
\* base that ends with a character of a-z0-9.
IsBaseDotExt(s) ==
    /\ Len(getFileExtension(ToLower(s))) > 1
    /\ BaseWithoutExt(s) # <<>>
    /\ ~InClass(BaseWithoutExt(s)[Len(BaseWithoutExt(s))], "nonalnum")

\* The base with every run of characters outside a-z0-9 replaced by one "_"
\* and a leading "_" dropped.
NormalizedBase(s) ==
    LET replaced == ReplaceRuns(BaseWithoutExt(s), "nonalnum", <<"_">>)
    IN  IF HasPrefix(replaced, <<"_">>) THEN Tail(replaced) ELSE replaced

\* C24: for a string base.ext, urlToFilename returns the normalized base
\* followed by ext: only the "_ext" that the extension itself left at the
\* end of the name is removed.
C24_TrimsOnlyTrailingExt ==
    (fnOutput.done /\ IsBaseDotExt(fnInput))
        => fnOutput.value = NormalizedBase(fnInput) \o getFileExtension(ToLower(fnInput))


(***************************************************************************)
(* The older variant, src/unnamed/part_000: its download loop over the     *)
(* URLs extracted from all saved pages.  The log is the same download.txt; *)
(* the local name of a URL is the SHA-256 of the URL.                      *)
(***************************************************************************)
MaxOldURLs == 3
URL_AB == URL_A \o <<"b">>
OldURLs == {URL_A, URL_AB, URL_B429}

\* generateHash: the hexadecimal SHA-256 of the string, kept as one symbol
\* per URL; different URLs have different digests.
generateHash(s) ==
    IF s = URL_A THEN <<"digest-1">>
    ELSE IF s = URL_AB THEN <<"digest-2">>
    ELSE IF s = URL_B429 THEN <<"digest-3">>
    ELSE <<"digest-0">>

\* urlToFilename of the older variant: the digest, ".pdf" appended unless
\* it is its extension already, lower-cased.
hashedFilename(rawURL) ==
    LET sanitized == generateHash(rawURL)
    IN  ToLower(IF getFileExtension(sanitized) # <<".", "p", "d", "f">>
                THEN sanitized \o <<".", "p", "d", "f">>
                ELSE sanitized)

\* downloadPDF: filepath.Join(outputDir, strings.ToLower(urlToFilename(finalURL)))
oldFilePath(url) == FilePath(ToLower(hashedFilename(url)))

removeDuplicatesFromSlice(slice) ==
    LET upTo[i \in 0..Len(slice)] ==
            IF i = 0 THEN <<>>
            ELSE IF \E k \in 1..Len(upTo[i - 1]) : upTo[i - 1][k] = slice[i]
                 THEN upTo[i - 1]
                 ELSE Append(upTo[i - 1], slice[i])
    IN  upTo[Len(slice)]

\* appendToSlice returns the longer slice; the slice of the caller keeps
\* its length.
appendToSlice(slice, content) == Append(slice, content)

\* strings.Contains(fileRead, url): the text of the log is its lines joined
\* by newlines and a URL holds no newline, so the URL occurs in the text
\* when it occurs in a line.
fileReadContains(url) == \E i \in 1..Len(ledger) : Contains(ledger[i], url)

ErrExists(path, url) ==
    Error("exists", 0,
          <<"file already exists, skipping: ">> \o path \o <<" (URL: ">> \o url \o <<")">>)

\* main of the older variant at the start of its download loop.
StartOld(urls, runNo, files) ==
    [pc |-> "loop", run |-> runNo, extractedURL |-> urls, index |-> 1, files |-> files,
     err |-> NoError, calls |-> [u \in OldURLs |-> 0], cooled |-> {}, skipped |-> {}]

InitOld ==
    /\ InitMain
    /\ fnInput = <<>>
    /\ fnOutput = NotApplied
    /\ \E raw \in SeqsUpTo(OldURLs, MaxOldURLs) :
          legacy = StartOld(removeDuplicatesFromSlice(raw), 1, {})
    /\ instances = NoInstances

oldURL == legacy.extractedURL[legacy.index]
OldInLoop == legacy.pc = "loop" /\ legacy.index <= Len(legacy.extractedURL)

\* What main does with the error downloadPDF returned: on an error whose
\* text contains "429" it sleeps, otherwise the loop goes on.
OldAfterCall(e) ==
    IF e.kind # "nil" /\ Contains(e.text, <<"4", "2", "9">>) THEN "sleep" ELSE "loop"

\* The URL occurs in the text of the log: downloadPDF is not called.
OldSkip ==
    /\ OldInLoop
    /\ fileReadContains(oldURL)
    /\ legacy' = [legacy EXCEPT !.index = @ + 1, !.skipped = @ \cup {oldURL}]
    /\ UNCHANGED <<mainIdle, applied, instances, ledger>>

\* downloadPDF finds the file: the line is appended (an append error is
\* only logged) and an error is returned.
OldCallExisting ==
    /\ OldInLoop
    /\ ~fileReadContains(oldURL)
    /\ oldFilePath(oldURL) \in legacy.files
    /\ \E ok \in BOOLEAN :
          ledger' = appendLineToFile(ledger, LogLine(oldURL, oldFilePath(oldURL)), ok)
    /\ LET e == ErrExists(oldFilePath(oldURL), oldURL)
       IN  legacy' = [legacy EXCEPT !.err = e,
                                    !.calls[oldURL] = @ + 1,
                                    !.pc = OldAfterCall(e),
                                    !.index = IF OldAfterCall(e) = "loop" THEN @ + 1 ELSE @]
    /\ UNCHANGED <<mainIdle, applied, instances>>

\* downloadPDF issues the GET, checks the response, creates and writes the
\* file and appends the line.
OldCallFetch ==
    /\ OldInLoop
    /\ ~fileReadContains(oldURL)
    /\ oldFilePath(oldURL) \notin legacy.files
    /\ \E r \in Responses, created \in BOOLEAN, written \in BOOLEAN, ok \in BOOLEAN :
          LET e == IF ResponseError(oldURL, r).kind # "nil" THEN ResponseError(oldURL, r)
                   ELSE IF ~created THEN ErrCreate(oldFilePath(oldURL))
                   ELSE IF ~written THEN ErrWrite(oldFilePath(oldURL))
                   ELSE NoError
          IN  /\ ledger' = IF e.kind = "nil"
                           THEN appendLineToFile(ledger,
                                                 LogLine(oldURL, oldFilePath(oldURL)), ok)
                           ELSE ledger
              /\ legacy' = [legacy EXCEPT
                              !.files = IF e.kind \in {"nil", "write"}
                                        THEN @ \cup {oldFilePath(oldURL)} ELSE @,
                              !.err = e,
                              !.calls[oldURL] = @ + 1,
                              !.pc = OldAfterCall(e),
                              !.index = IF OldAfterCall(e) = "loop" THEN @ + 1 ELSE @]
    /\ UNCHANGED <<mainIdle, applied, instances>>

\* appendToSlice(extractedURL, url) was called and its result dropped, and
\* the sleep is over: the loop goes on with the next element of the slice
\* it ranges over.
OldSleep ==
    /\ legacy.pc = "sleep"
    /\ LET requeued == appendToSlice(legacy.extractedURL, oldURL)
       IN  legacy' = [legacy EXCEPT !.cooled = @ \cup {oldURL},
                                    !.extractedURL = SubSeq(requeued, 1, Len(@)),
                                    !.index = @ + 1,
                                    !.pc = "loop"]
    /\ UNCHANGED <<mainIdle, applied, instances, ledger>>

\* The loop is over: main returns.
OldEnd ==
    /\ legacy.pc = "loop"
    /\ legacy.index > Len(legacy.extractedURL)
    /\ legacy' = [legacy EXCEPT !.pc = "done"]
    /\ UNCHANGED <<mainIdle, applied, instances, ledger>>

\* main is run again on the same pages, log and directory.
OldRunAgain ==
    /\ legacy.pc = "done"
    /\ legacy.run < MaxRuns
    /\ legacy' = StartOld(legacy.extractedURL, legacy.run + 1, legacy.files)
    /\ UNCHANGED <<mainIdle, applied, instances, ledger>>

NextOld == OldSkip \/ OldCallExisting \/ OldCallFetch \/ OldSleep \/ OldEnd \/ OldRunAgain
SpecOld == InitOld /\ [][NextOld]_vars

(***************************************************************************)
(* C25. A URL that failed with a 429 in the older variant.                 *)
(***************************************************************************)
\* C25: in the older variant a URL for which main slept after a 429 has
\* been attempted again by the time the run ends: downloadPDF was called
\* for it at least twice in the run.
C25_RequeuedAfter429 ==
    legacy.pc = "done" => \A u \in legacy.cooled : legacy.calls[u] >= 2

(***************************************************************************)
(* C26. The URLs the older variant skips.                                  *)
(***************************************************************************)
\* C26: in the older variant main skips a URL as already downloaded only
\* when a line of the download log records exactly that URL.
C26_ExactMatchSkip ==
    \A u \in legacy.skipped : u \in loadDownloadLogToMap(ledger)


(***************************************************************************)
(* C27. The lines of the download log.                                     *)
(***************************************************************************)
\* The URL a line was written for: LogLine puts the URL before the
\* separator and the path, which holds no separator, after it.
LineURL(line) == SubSeq(line, 1, Len(line) - Len(LinePath(line)) - Len(Arrow))

\* A page document with an item whose URL holds the separator of the log.
ArrowPayload ==
    [valid |-> TRUE,
     Results |-> << <<Variant(URL_ARROW, NAME_A), Variant(URL_A, NAME_OTHER)>> >>]

\* main started in a fresh working directory, the API serving ArrowPayload
\* for every page.
InitServed ==
    /\ InitMain
    /\ legacy = NoLegacy
    /\ instances = NoInstances
    /\ fnInput = ArrowPayload
    /\ fnOutput = NotApplied

\* ParsePage for the served document: a page file that was cut short is
\* not valid JSON.
ParseServed ==
    /\ pc = "parse"
    /\ doesJSONFileExist(pageIndex)
    /\ extracted' = IF jsonFile[pageIndex] = "full" THEN parseJSONForDownloads(fnInput)
                    ELSE parseJSONForDownloads(FileContent(pageIndex, "partial"))
    /\ extractedRun' = extractedRun \cup {extracted'[i].URL : i \in 1..Len(extracted')}
    /\ idx' = 1
    /\ pc' = "item"
    /\ UNCHANGED <<progress, applied, legacy, instances, run, crashes, durable, alreadyDownloaded,
                   pageIndex, attempt, err, gets, itemHist, callHist, runEntry, failedRun,
                   failedPrev>>

NextServed ==
    \/ Start \/ PageGet \/ PageCopy \/ PageCached \/ ParseServed \/ SkipPage
    \/ ItemBegin \/ PageEnd
    \/ SkipLogged \/ SkipExists \/ Download \/ CreateFile \/ WriteFile \/ RecordDownload
    \/ BeginSleep \/ RetryCall \/ ItemEnd
    \/ NextRun \/ Crash

SpecServed == InitServed /\ [][NextServed]_vars

\* C27: whatever runs of main were completed or cut short and started
\* again, the download log holds at most one line for a URL.
C27_NoDuplicateLines ==
    \A i, j \in 1..Len(ledger) : LineURL(ledger[i]) = LineURL(ledger[j]) => i = j


(***************************************************************************)
(* C28. The page file after a failed page fetch.                           *)
(***************************************************************************)
\* C28: a page fetch that failed leaves no page file: unless
\* downloadDataFromURL is writing basf_<n>.json at this moment, the file is
\* absent or holds the complete response, so that a page whose fetch
\* failed is fetched again by the next run.
C28_NoIncompletePageFile ==
    \A n \in Pages :
        jsonFile[n] = "partial" => (pc = "pagecopy" /\ pageIndex = n)


(***************************************************************************)
(* Two processes of main on the same download log and output directory.    *)
(* Each has its own in-memory set, loaded when it starts, and walks the    *)
(* items of page 0; the steps of downloadPDFFile of the two processes      *)
(* interleave freely, as nothing in the code orders them.                  *)
(***************************************************************************)
Instances == {1, 2}
sharedItems == ExtractedFrom[<<0, "full">>]

aloneIdle == <<progress, pc, run, crashes, jsonFile, alreadyDownloaded, loopVars, err, gets,
               itemHist, callHist, runHist>>

NewInstance == [pc |-> "start", set |-> {}, idx |-> 1, gets |-> [u \in URLs |-> 0]]

InitShared ==
    /\ InitMain
    /\ legacy = NoLegacy
    /\ fnInput = <<>>
    /\ fnOutput = NotApplied
    /\ instances = [i \in Instances |-> NewInstance]

itemOf(i) == sharedItems[instances[i].idx]
AtCall(i) == instances[i].pc = "call" /\ instances[i].idx <= Len(sharedItems)

\* The process reads the download log into its set.
InstStart(i) ==
    /\ instances[i].pc = "start"
    /\ instances' = [instances EXCEPT ![i].set = loadDownloadLogToMap(ledger),
                                      ![i].pc = "call"]
    /\ UNCHANGED <<aloneIdle, applied, legacy, ledger, disk>>

\* 1. The URL is in the set of the process.
InstSkipLogged(i) ==
    /\ AtCall(i)
    /\ itemOf(i).URL \in instances[i].set
    /\ instances' = [instances EXCEPT ![i].idx = @ + 1]
    /\ UNCHANGED <<aloneIdle, applied, legacy, ledger, disk>>

\* 2. The file exists: the line is appended and the URL added to the set.
InstSkipExists(i) ==
    /\ AtCall(i)
    /\ itemOf(i).URL \notin instances[i].set
    /\ doesFileExist(ItemPath(itemOf(i)))
    /\ \E ok \in BOOLEAN :
          ledger' = appendLineToFile(ledger, LogLine(itemOf(i).URL, ItemPath(itemOf(i))), ok)
    /\ instances' = [instances EXCEPT ![i].set = @ \cup {itemOf(i).URL}, ![i].idx = @ + 1]
    /\ UNCHANGED <<aloneIdle, applied, legacy, disk>>

\* Mutant of InstGet: a process does not fetch a URL while another process
\* is between the GET and the record of the same URL.
InstGetLocked(i) ==
    /\ AtCall(i)
    /\ itemOf(i).URL \notin instances[i].set
    /\ ~doesFileExist(ItemPath(itemOf(i)))
    /\ \A j \in Instances \ {i} :
          ~(instances[j].pc \in {"create", "write", "record"} /\ itemOf(j).URL = itemOf(i).URL)
    /\ \E r \in Responses :
          instances' = [instances EXCEPT
                          ![i].gets[itemOf(i).URL] = @ + 1,
                          ![i].pc = IF ResponseError(itemOf(i).URL, r).kind = "nil"
                                    THEN "create" ELSE "call",
                          ![i].idx = IF ResponseError(itemOf(i).URL, r).kind = "nil"
                                     THEN @ ELSE @ + 1]
    /\ UNCHANGED <<aloneIdle, applied, legacy, ledger, disk>>

\* The GET and the checks of the response; on an error the call returns and
\* the loop goes to the next item.
InstGet(i) ==
    /\ AtCall(i)
    /\ itemOf(i).URL \notin instances[i].set
    /\ ~doesFileExist(ItemPath(itemOf(i)))
    /\ \E r \in Responses :
          instances' = [instances EXCEPT
                          ![i].gets[itemOf(i).URL] = @ + 1,
                          ![i].pc = IF ResponseError(itemOf(i).URL, r).kind = "nil"
                                    THEN "create" ELSE "call",
                          ![i].idx = IF ResponseError(itemOf(i).URL, r).kind = "nil"
                                     THEN @ ELSE @ + 1]
    /\ UNCHANGED <<aloneIdle, applied, legacy, ledger, disk>>

\* os.Create: the file is created, or truncated when another process
\* created it in the meantime; or the call fails.
InstCreate(i) ==
    /\ instances[i].pc = "create"
    /\ \E ok \in BOOLEAN :
          IF ok
          THEN /\ disk' = [disk EXCEPT ![ItemPath(itemOf(i))] =
                                           [state |-> "partial", from |-> itemOf(i).URL]]
               /\ instances' = [instances EXCEPT ![i].pc = "write"]
          ELSE /\ instances' = [instances EXCEPT ![i].pc = "call", ![i].idx = @ + 1]
               /\ UNCHANGED disk
    /\ UNCHANGED <<aloneIdle, applied, legacy, ledger>>

\* buffer.WriteTo
InstWrite(i) ==
    /\ instances[i].pc = "write"
    /\ \E ok \in BOOLEAN :
          IF ok
          THEN /\ disk' = [disk EXCEPT ![ItemPath(itemOf(i))] =
                                           [state |-> "full", from |-> itemOf(i).URL]]
               /\ instances' = [instances EXCEPT ![i].pc = "record"]
          ELSE /\ instances' = [instances EXCEPT ![i].pc = "call", ![i].idx = @ + 1]
               /\ UNCHANGED disk
    /\ UNCHANGED <<aloneIdle, applied, legacy, ledger>>

\* The line is appended and the URL added to the set of the process.
InstRecord(i) ==
    /\ instances[i].pc = "record"
    /\ \E ok \in BOOLEAN :
          ledger' = appendLineToFile(ledger, LogLine(itemOf(i).URL, ItemPath(itemOf(i))), ok)
    /\ instances' = [instances EXCEPT ![i].set = @ \cup {itemOf(i).URL},
                                      ![i].pc = "call",
                                      ![i].idx = @ + 1]
    /\ UNCHANGED <<aloneIdle, applied, legacy, disk>>

\* The loop of the process is over.
InstEnd(i) ==
    /\ instances[i].pc = "call"
    /\ instances[i].idx > Len(sharedItems)
    /\ instances' = [instances EXCEPT ![i].pc = "done"]
    /\ UNCHANGED <<aloneIdle, applied, legacy, ledger, disk>>

NextShared ==
    \E i \in Instances :
        \/ InstStart(i) \/ InstSkipLogged(i) \/ InstSkipExists(i) \/ InstGet(i)
        \/ InstCreate(i) \/ InstWrite(i) \/ InstRecord(i) \/ InstEnd(i)

SpecShared == InitShared /\ [][NextShared]_vars

(***************************************************************************)
(* C29. Two processes and one URL.                                         *)
(***************************************************************************)
\* Process i has issued its GET for the URL and has not yet recorded it.
Fetching(i, url) ==
    /\ instances[i].pc \in {"create", "write", "record"}
    /\ itemOf(i).URL = url

\* C29: nothing keeps a process from fetching a URL that another process
\* is fetching: when one process is between its GET and its record of a URL
\* and the other reaches the same URL with the URL not in its own set and
\* no file at the path yet, the GET of the other process can be issued.
C29_Unguarded ==
    \A i \in Instances : \A j \in Instances \ {i} :
        (/\ AtCall(j)
         /\ Fetching(i, itemOf(j).URL)
         /\ itemOf(j).URL \notin instances[j].set
         /\ ~doesFileExist(ItemPath(itemOf(j))))
            => ENABLED InstGet(j)

\* Both processes issued a GET for http://h/a and the download log holds
\* two lines for it.
C29_Witness ==
    /\ instances[1].gets[URL_A] >= 1
    /\ instances[2].gets[URL_A] >= 1
    /\ Cardinality({k \in 1..Len(ledger) : LineURL(ledger[k]) = URL_A}) = 2

=============================================================================
